---- MODULE Spec2Model ----
(***************************************************************************)
(* cudf::transpose (src/cpp/src/transform/mask_to_bools.cu, lines 89-256). *)
(* The host function detail::transpose, the functor launch_kernel and the  *)
(* two kernels gpu_transpose and gpu_transpose_valids, run on one CUDA     *)
(* stream.  The host enqueues work on the stream and the device executes   *)
(* the stream in order; inside a kernel the warps interleave freely.       *)
(*                                                                         *)
(* Sizes are scaled: the source has WARP_SIZE = 32 (line 93) and           *)
(* MAX_GRID_SIZE = (1<<16)-1 (line 94); the model keeps the way the code   *)
(* uses them and makes them small enough that bands of columns, several    *)
(* blocks and a capped grid all occur on tables of a few cells.            *)
(***************************************************************************)
EXTENDS Integers, Sequences, FiniteSets, TLC

VARIABLES
    tables,         \* device/host tables: the input of call k is tables[k], its output tables[k+1]
    call,           \* which call of transpose is in progress (1, 2, ...)
    pc,             \* position of the host thread inside detail::transpose
    result,         \* what the caller received from the current call
    null_counts,    \* std::vector<size_type> null_counts (host, line 224)
    d_null_counts,  \* rmm::device_vector<size_type> d_null_counts (device, line 180)
    stream,         \* work enqueued on the CUDA stream and not yet completed
    warps,          \* progress of the warps of the kernel being executed
    nalloc,         \* output columns allocated by the current call
    nlaunch,        \* kernels launched by the current call
    data_writes,    \* per table, column and element: stores executed by gpu_transpose
    mask_writes,    \* per table, column and mask word: set_mask_word calls executed
    ncopies,        \* device-to-host copies of d_null_counts run for the current call
    mb_pc,          \* position inside detail::mask_to_bools
    bitmask,        \* its argument bitmask: a device array of words, or nullptr
    offset,         \* its argument offset
    length,         \* its argument length
    out_col,        \* the column it builds
    mb_result,      \* what its caller received
    mask_reads,     \* the bits of bitmask it has read
    ix_pc,          \* position of one kernel thread inside one strided loop
    ix_axis,        \* the loop it runs: "x" over columns (i) or "y" over rows (j)
    ix_n,           \* the loop's limit: input.num_columns() or input.num_rows()
    ix_block,       \* blockIdx of the thread along the axis
    ix_thread,      \* threadIdx of the thread along the axis
    ix_grid,        \* gridDim along the axis
    ix_start,       \* x or y
    ix_stride,      \* stride_x or stride_y
    ix_i            \* i or j

transpose_vars == <<tables, call, pc, result, null_counts, d_null_counts, stream, warps,
                    nalloc, nlaunch, data_writes, mask_writes, ncopies>>
unpack_vars == <<mb_pc, bitmask, offset, length, out_col, mb_result, mask_reads>>
index_vars == <<ix_pc, ix_axis, ix_n, ix_block, ix_thread, ix_grid, ix_start, ix_stride, ix_i>>
vars == <<transpose_vars, unpack_vars, index_vars>>

(* ------------------------------ sizes ---------------------------------- *)

\* constexpr int WARP_SIZE = 32 (line 93), scaled
WARP_SIZE == 2
\* constexpr int MAX_GRID_SIZE = (1<<16)-1 (line 94), scaled
MAX_GRID_SIZE == 2
\* largest number of input columns, input rows and input elements of the first call
MaxCols == 5
MaxRows == 5
MaxCells == 6
\* transpose is called at most this many times in a row, each time on the previous output
MaxCalls == 2
\* mask_to_bools: words of the bitmask passed, and the largest length asked for
MaxMaskWords == 2
MaxLength == 3

(* ------------------------- bit.hpp, types.hpp -------------------------- *)

\* size_in_bits<bitmask_type>(): one mask word has as many bits as a warp has lanes
BitsPerWord == WARP_SIZE
\* cudf::UNKNOWN_NULL_COUNT
UNKNOWN_NULL_COUNT == -1
\* contents of device memory that was allocated and never written
Uninit == -1

RECURSIVE Pow2(_)
Pow2(n) == IF n = 0 THEN 1 ELSE 2 * Pow2(n - 1)

\* word_index(bit_index)
word_index(b) == b \div BitsPerWord
\* intra_word_index(bit_index)
intra_word_index(b) == b % BitsPerWord
\* bit b of a mask word
WordBit(word, b) == (word \div Pow2(b)) % 2 = 1
\* bit_is_set(bitmask, bit_index)
bit_is_set(mask, b) == WordBit(mask[word_index(b) + 1], intra_word_index(b))
\* __popc(word)
RECURSIVE popc(_)
popc(word) == IF word = 0 THEN 0 ELSE (word % 2) + popc(word \div 2)
\* num_bitmask_words(number_of_bits)
num_bitmask_words(n) == (n + BitsPerWord - 1) \div BitsPerWord
\* util::div_rounding_up_safe(dividend, divisor)
div_rounding_up_safe(a, b) == (a \div b) + (IF a % b # 0 THEN 1 ELSE 0)
Min(a, b) == IF a < b THEN a ELSE b

RECURSIVE SumSeq(_)
SumSeq(s) == IF s = <<>> THEN 0 ELSE Head(s) + SumSeq(Tail(s))

(* --------------------------- columns, tables --------------------------- *)

Types == {"INT32", "INT64", "STRING"}
\* is_fixed_width(dtype)
is_fixed_width(t) == t \in {"INT32", "INT64"}

\* column_device_view::is_valid(element_index): not nullable() or the bit is set
is_valid(col, j) == (~col.has_mask) \/ bit_is_set(col.mask, j)
\* count_unset_bits(mask, 0, size); 0 for a column without a mask
count_unset_bits(col) ==
    IF col.has_mask THEN Cardinality({j \in 0..(col.size - 1) : ~bit_is_set(col.mask, j)}) ELSE 0
\* column::null_count(): the recorded count, computed from the mask while unknown
null_count(col) ==
    IF col.null_count = UNKNOWN_NULL_COUNT THEN count_unset_bits(col) ELSE col.null_count
\* has_nulls(table_view): some column has a null count above zero
has_nulls(t) == \E c \in 1..Len(t) : null_count(t[c]) > 0

num_columns(t) == Len(t)
num_rows(t) == IF Len(t) = 0 THEN 0 ELSE t[1].size

(* ------------------------------ inputs --------------------------------- *)

Lanes == 0..(WARP_SIZE - 1)

RECURSIVE PackFrom(_, _)
\* the mask word whose set bits are the positions in S
PackFrom(S, b) ==
    IF b = BitsPerWord THEN 0 ELSE (IF b \in S THEN Pow2(b) ELSE 0) + PackFrom(S, b + 1)

\* the mask words of a column of n elements whose valid elements are those of V
PackMask(V, n) ==
    [w \in 1..num_bitmask_words(n) |->
        PackFrom({b \in 0..(BitsPerWord - 1) : ((w - 1) * BitsPerWord + b) \in V}, 0)]

Shapes ==
    {s \in (0..MaxCols) \X (0..MaxRows) : s[1] * s[2] <= MaxCells /\ (s[1] = 0 => s[2] = 0)}

\* the element types of c columns: one type throughout, or one column of another type
TypeVectors(c) ==
    {[i \in 1..c |-> t] : t \in Types}
    \cup {[i \in 1..c |-> IF i = d THEN u ELSE t] : d \in 1..c, t \in Types, u \in Types}

\* a column without a mask, or a column with a mask and any set of valid rows
ColumnValidities(r) ==
    {[has_mask |-> FALSE, valid |-> 0..(r - 1)]}
    \cup {[has_mask |-> TRUE, valid |-> V] : V \in SUBSET (0..(r - 1))}

\* input column i (from 0) of a c x r table: distinct payloads, a null count true to the mask
InputColumn(i, r, t, cv) ==
    [dtype      |-> t,
     size       |-> r,
     data       |-> [j \in 1..r |-> 1 + i * r + (j - 1)],
     has_mask   |-> cv.has_mask,
     mask       |-> IF cv.has_mask THEN PackMask(cv.valid, r) ELSE <<>>,
     null_count |-> r - Cardinality(cv.valid)]

NoTable == [alloc |-> FALSE, cols |-> <<>>]
TableIds == 1..(MaxCalls + 1)

\* the table the current call reads and the table it builds
InId == call
OutId == call + 1
input == tables[InId].cols
output == tables[OutId].cols

\* no call of mask_to_bools is in progress
UnpackIdle ==
    /\ mb_pc = "idle"
    /\ bitmask = [present |-> FALSE, words |-> <<>>]
    /\ offset = 0
    /\ length = 0
    /\ out_col = [alloc |-> FALSE, size |-> 0, data |-> <<>>, has_mask |-> FALSE]
    /\ mb_result = "none"
    /\ mask_reads = {}

\* no kernel thread is being followed through a strided loop
IndexIdle ==
    /\ ix_pc = "idle"
    /\ ix_axis = "x"
    /\ ix_n = 0
    /\ ix_block = 0
    /\ ix_thread = 0
    /\ ix_grid = 0
    /\ ix_start = 0
    /\ ix_stride = 0
    /\ ix_i = 0

Init ==
    \E s \in Shapes :
      \E tv \in TypeVectors(s[1]) :
        \E cvs \in [1..s[1] -> ColumnValidities(s[2])] :
          /\ tables = [id \in TableIds |->
                 IF id = 1
                 THEN [alloc |-> TRUE,
                       cols  |-> [i \in 1..s[1] |-> InputColumn(i - 1, s[2], tv[i], cvs[i])]]
                 ELSE NoTable]
          /\ call = 1
          /\ pc = "start"
          /\ result = "none"
          /\ null_counts = <<>>
          /\ d_null_counts = <<>>
          /\ stream = <<>>
          /\ warps = <<>>
          /\ nalloc = 0
          /\ nlaunch = 0
          /\ data_writes = [id \in TableIds |-> <<>>]
          /\ mask_writes = [id \in TableIds |-> <<>>]
          /\ ncopies = 0
          /\ UnpackIdle
          /\ IndexIdle

(* ----------------------- detail::transpose (host) ---------------------- *)

TypeMismatch == "Column type mismatch"
UnsupportedType == "Invalid, non-fixed-width type."

input_ncols == num_columns(input)
input_nrows == num_rows(input)
\* line 203 testing the columns only
IsEmptyInput_columns_only == input_ncols = 0
\* line 203
IsEmptyInput == input_ncols = 0 \/ input_nrows = 0
\* lines 210-211 comparing only the last column with the first
SameTypes_last_only == input[Len(input)].dtype = input[1].dtype
\* std::all_of(input.begin(), input.end(), dtype == col.type())
SameTypes == \A c \in 1..Len(input) : input[c].dtype = input[1].dtype

\* lines 202-205: nothing to transpose, an empty table is returned
ReturnEmpty ==
    /\ pc = "start"
    /\ IsEmptyInput
    /\ tables' = [tables EXCEPT ![OutId] = [alloc |-> TRUE, cols |-> <<>>]]
    /\ result' = "table"
    /\ pc' = "done"
    /\ UNCHANGED <<call, null_counts, d_null_counts, stream, warps, nalloc, nlaunch>>
    /\ UNCHANGED <<data_writes, mask_writes, ncopies, unpack_vars, index_vars>>

\* lines 207-211: CUDF_EXPECTS all columns have the type of the first
FailTypeMismatch ==
    /\ pc = "start"
    /\ ~IsEmptyInput
    /\ ~SameTypes
    /\ result' = TypeMismatch
    /\ pc' = "done"
    /\ UNCHANGED <<tables, call, null_counts, d_null_counts, stream, warps, nalloc, nlaunch>>
    /\ UNCHANGED <<data_writes, mask_writes, ncopies, unpack_vars, index_vars>>

\* line 214: CUDF_EXPECTS the common type is fixed-width
FailNonFixedWidth ==
    /\ pc = "start"
    /\ ~IsEmptyInput
    /\ SameTypes
    /\ ~is_fixed_width(input[1].dtype)
    /\ result' = UnsupportedType
    /\ pc' = "done"
    /\ UNCHANGED <<tables, call, null_counts, d_null_counts, stream, warps, nalloc, nlaunch>>
    /\ UNCHANGED <<data_writes, mask_writes, ncopies, unpack_vars, index_vars>>

\* experimental::detail::allocate_like(first, size, policy): the type of first, new
\* uninitialised data, and an uninitialised mask under ALWAYS, none under NEVER, one
\* under RETAIN when first has one
allocate_like(first, size, policy) ==
    LET with_mask == policy = "ALWAYS" \/ (policy = "RETAIN" /\ first.has_mask)
    IN [dtype      |-> first.dtype,
        size       |-> size,
        data       |-> [p \in 1..size |-> Uninit],
        has_mask   |-> with_mask,
        mask       |-> IF with_mask THEN [w \in 1..num_bitmask_words(size) |-> Uninit] ELSE <<>>,
        null_count |-> UNKNOWN_NULL_COUNT]

\* lines 219-220 leaving the policy at allocate_like's default
allocation_policy_retain(has_null) == "RETAIN"

\* lines 219-220: one policy for all output columns
allocation_policy(has_null) == IF has_null THEN "ALWAYS" ELSE "NEVER"

\* lines 227-233: one output column per input row, each of input.num_columns() rows
allocated_output(in) ==
    [c \in 1..num_rows(in) |->
        allocate_like(in[1], num_columns(in), allocation_policy(has_nulls(in)))]

\* nothing has been stored yet into the elements and mask words of fresh columns
no_data_writes(cols) == [c \in 1..Len(cols) |-> [p \in 1..cols[c].size |-> 0]]
no_mask_writes(cols) == [c \in 1..Len(cols) |-> [w \in 1..Len(cols[c].mask) |-> 0]]

\* lines 214-233 with the fixed-width check moved behind the allocation: the output
\* columns exist when the failure is raised and are released by the unwinding
AllocateThenCheck ==
    /\ pc = "start"
    /\ ~IsEmptyInput
    /\ SameTypes
    /\ nalloc' = input_nrows
    /\ IF is_fixed_width(input[1].dtype)
       THEN /\ null_counts' = [c \in 1..(IF has_nulls(input) THEN input_nrows ELSE 0) |-> 0]
            /\ tables' = [tables EXCEPT ![OutId] =
                   [alloc |-> TRUE, cols |-> allocated_output(input)]]
            /\ data_writes' = [data_writes EXCEPT ![OutId] = no_data_writes(allocated_output(input))]
            /\ mask_writes' = [mask_writes EXCEPT ![OutId] = no_mask_writes(allocated_output(input))]
            /\ pc' = "launch"
            /\ UNCHANGED result
       ELSE /\ result' = UnsupportedType
            /\ pc' = "done"
            /\ UNCHANGED <<tables, null_counts, data_writes, mask_writes>>
    /\ UNCHANGED <<call, d_null_counts, stream, warps, nlaunch>>
    /\ UNCHANGED <<ncopies, unpack_vars, index_vars>>

\* lines 217-233: the mask policy, the null_counts vector and the output columns
Allocate ==
    /\ pc = "start"
    /\ ~IsEmptyInput
    /\ SameTypes
    /\ is_fixed_width(input[1].dtype)
    /\ LET has_null == has_nulls(input)
           output_ncols == input_nrows
       IN /\ null_counts' = [c \in 1..(IF has_null THEN output_ncols ELSE 0) |-> 0]
          /\ tables' = [tables EXCEPT ![OutId] =
                 [alloc |-> TRUE, cols |-> allocated_output(input)]]
          /\ data_writes' = [data_writes EXCEPT ![OutId] = no_data_writes(allocated_output(input))]
          /\ mask_writes' = [mask_writes EXCEPT ![OutId] = no_mask_writes(allocated_output(input))]
          /\ nalloc' = output_ncols
    /\ pc' = "launch"
    /\ UNCHANGED <<call, result, d_null_counts, stream, warps, nlaunch>>
    /\ UNCHANGED <<ncopies, unpack_vars, index_vars>>

(* ------------------------ launch_kernel (host) ------------------------- *)

\* line 174-175: dimGrid, one block per WARP_SIZE columns / rows, capped
grid_dim(n) == Min(div_rounding_up_safe(n, WARP_SIZE), MAX_GRID_SIZE)

KernelOp(kernel) ==
    [kind |-> kernel, in |-> InId, out |-> OutId,
     gx |-> grid_dim(input_ncols), gy |-> grid_dim(input_nrows)]
MemcpyOp == [kind |-> "memcpy", in |-> InId, out |-> OutId, gx |-> 0, gy |-> 0]

\* lines 165-177: gpu_transpose<T><<<dimGrid, dimBlock, 0, stream>>>
LaunchValues ==
    /\ pc = "launch"
    /\ stream' = Append(stream, KernelOp("gpu_transpose"))
    /\ nlaunch' = nlaunch + 1
    /\ pc' = "launched"
    /\ UNCHANGED <<tables, call, result, null_counts, d_null_counts, warps, nalloc>>
    /\ UNCHANGED <<data_writes, mask_writes, ncopies, unpack_vars, index_vars>>

\* line 180 with a buffer that is allocated and not initialised
new_accumulator_uninit(n) == [c \in 1..n |-> Uninit]
\* line 180: rmm::device_vector<size_type> d_null_counts(null_counts.size()), whose
\* elements the vector's constructor value-initialises
new_accumulator(n) == [c \in 1..n |-> 0]

\* lines 179-182: with nulls, a zeroed accumulator and gpu_transpose_valids<<<...>>>
LaunchValids ==
    /\ pc = "launched"
    /\ null_counts # <<>>
    /\ d_null_counts' = new_accumulator(Len(null_counts))
    /\ stream' = Append(stream, KernelOp("gpu_transpose_valids"))
    /\ nlaunch' = nlaunch + 1
    /\ pc' = "memcpy"
    /\ UNCHANGED <<tables, call, result, null_counts, warps, nalloc>>
    /\ UNCHANGED <<data_writes, mask_writes, ncopies, unpack_vars, index_vars>>

\* line 179: without nulls launch_kernel is over after the first launch
SkipValids ==
    /\ pc = "launched"
    /\ null_counts = <<>>
    /\ pc' = "finish"
    /\ UNCHANGED <<tables, call, result, null_counts, d_null_counts, stream, warps, nalloc, nlaunch>>
    /\ UNCHANGED <<data_writes, mask_writes, ncopies, unpack_vars, index_vars>>

\* lines 185-186: cudaMemcpyAsync(null_counts.data(), d_null_counts, ..., stream)
MemcpyAsync ==
    /\ pc = "memcpy"
    /\ stream' = Append(stream, MemcpyOp)
    /\ pc' = "sync"
    /\ UNCHANGED <<tables, call, result, null_counts, d_null_counts, warps, nalloc, nlaunch>>
    /\ UNCHANGED <<data_writes, mask_writes, ncopies, unpack_vars, index_vars>>

\* lines 187-188 without the wait: the host goes on while the stream holds work
StreamSynchronize_no_wait ==
    /\ pc = "sync"
    /\ pc' = "finish"
    /\ UNCHANGED <<tables, call, result, null_counts, d_null_counts, stream, warps, nalloc, nlaunch>>
    /\ UNCHANGED <<data_writes, mask_writes, ncopies, unpack_vars, index_vars>>

\* lines 187-188: cudaStreamSynchronize(stream) blocks while the stream holds work;
\* d_null_counts is destroyed at the end of the block
StreamSynchronize ==
    /\ pc = "sync"
    /\ stream = <<>>
    /\ d_null_counts' = <<>>
    /\ pc' = "finish"
    /\ UNCHANGED <<tables, call, result, null_counts, stream, warps, nalloc, nlaunch>>
    /\ UNCHANGED <<data_writes, mask_writes, ncopies, unpack_vars, index_vars>>

\* lines 239-245: with nulls set_null_count on every output column; return output
Return ==
    /\ pc = "finish"
    /\ tables' = [tables EXCEPT ![OutId].cols =
           [c \in 1..Len(output) |->
               IF null_counts # <<>>
               THEN [output[c] EXCEPT !.null_count = null_counts[c]]
               ELSE output[c]]]
    /\ result' = "table"
    /\ pc' = "done"
    /\ UNCHANGED <<call, null_counts, d_null_counts, stream, warps, nalloc, nlaunch>>
    /\ UNCHANGED <<data_writes, mask_writes, ncopies, unpack_vars, index_vars>>

\* the caller transposes the table it received
TransposeAgain ==
    /\ pc = "done"
    /\ result = "table"
    /\ call < MaxCalls
    /\ call' = call + 1
    /\ pc' = "start"
    /\ result' = "none"
    /\ null_counts' = <<>>
    /\ nalloc' = 0
    /\ nlaunch' = 0
    /\ ncopies' = 0
    /\ UNCHANGED <<tables, d_null_counts, stream, warps>>
    /\ UNCHANGED <<data_writes, mask_writes, unpack_vars, index_vars>>

(* ----------------------------- the device ------------------------------ *)

\* a warp of a launch: block (bx, by) and threadIdx.y = ty; its lanes are threadIdx.x
WarpIds(op) == (0..(op.gx - 1)) \X (0..(op.gy - 1)) \X (0..(WARP_SIZE - 1))

Head1 == stream[1]
OpIn(op) == tables[op.in].cols

\* lines 107, 131 without the block offset
thread_x_no_block(bx, l) == l
\* lines 107, 131: x = blockIdx.x * blockDim.x + threadIdx.x
thread_x(bx, l) == bx * WARP_SIZE + l
\* lines 108, 132: y = blockIdx.y * blockDim.y + threadIdx.y
thread_y(by, ty) == by * WARP_SIZE + ty
\* lines 110, 134 taking the blocks from the size of the table, not from the grid
stride_x_of_table(op) == WARP_SIZE * div_rounding_up_safe(num_columns(OpIn(op)), WARP_SIZE)
\* lines 110, 134 without the grid: every block strides by its own width
stride_x_block_only(op) == WARP_SIZE
\* lines 110, 134 without the block: the grid counted in threads
stride_x_grid_only(op) == op.gx
\* lines 110, 134: stride_x = blockDim.x * gridDim.x
stride_x(op) == WARP_SIZE * op.gx
\* lines 111, 135: stride_y = blockDim.y * gridDim.y
stride_y(op) == WARP_SIZE * op.gy

\* __ballot_sync(mask, predicate): bit l is set when lane l is named in mask, executes
\* the vote and its predicate holds; P is the set of such executing lanes
ballot_sync(mask, P) == PackFrom({l \in Lanes : WordBit(mask, l) /\ l \in P}, 0)
FullMask == Pow2(WARP_SIZE) - 1
\* the lanes a participation mask names
LanesOf(mask) == {l \in Lanes : WordBit(mask, l)}

\* the lanes of a warp that are inside the loop over i: those whose i is a column
in_loop(op, i0) == {l \in Lanes : i0 + l < num_columns(OpIn(op))}

\* lines 141, 153 with the mask of the first vote
loop_vote_mask_full(active_threads) == FullMask
\* lines 141, 153: the votes inside the loop name active_threads
loop_vote_mask(active_threads) == active_threads

\* one executed vote: the mask it was given and the lanes that executed it
Vote(mask, voters) == [mask |-> mask, voters |-> voters]

\* lines 139-153 for a warp whose y is not a row: the loop over j has no iteration,
\* the warp touches no memory, and what it does is vote at line 153, band after band
RECURSIVE votes_without_row(_, _, _)
votes_without_row(op, i0, active_threads) ==
    IF i0 < num_columns(OpIn(op))
    THEN <<Vote(loop_vote_mask(active_threads), in_loop(op, i0))>>
         \o votes_without_row(op, i0 + stride_x(op),
                ballot_sync(loop_vote_mask(active_threads),
                            {l \in in_loop(op, i0) :
                                i0 + stride_x(op) + l < num_columns(OpIn(op))}))
    ELSE <<>>

\* the state of a warp as its threads enter the kernel: i of lane 0, j, the first vote
\* (line 138, executed by every lane), and whether any lane of it has an iteration
\* of the loop over j to run. A warp that has none is followed no further: its votes
\* of line 153 are recorded here
WarpStart(op, w) ==
    LET i0 == thread_x(w[1], 0)
        y  == thread_y(w[2], w[3])
        nc == num_columns(OpIn(op))
        nr == num_rows(OpIn(op))
        valids == op.kind = "gpu_transpose_valids"
        first  == ballot_sync(FullMask, {l \in Lanes : i0 + l < nc})
    IN [i0     |-> i0,
        j      |-> y,
        active |-> IF valids THEN first ELSE 0,
        done   |-> ~(i0 < nc /\ y < nr),
        votes  |-> IF valids
                   THEN <<Vote(FullMask, Lanes)>>
                        \o (IF y < nr THEN <<>> ELSE votes_without_row(op, i0, first))
                   ELSE <<>>]

\* lines 113-114, 139-153: the loop control of one step of warp w. A step is one
\* iteration of the loop over j; after the last j of a band the lanes add stride_x
\* and, in gpu_transpose_valids, vote on who stays
warp_next(op, w, st) ==
    LET nc == num_columns(OpIn(op))
        nr == num_rows(OpIn(op))
        valids == op.kind = "gpu_transpose_valids"
        y  == thread_y(w[2], w[3])
        j2 == st.j + stride_y(op)
        more == j2 < nr
        i2 == IF more THEN st.i0 ELSE st.i0 + stride_x(op)
        running == in_loop(op, st.i0)
        mask == loop_vote_mask(st.active)
    IN [i0     |-> i2,
        j      |-> IF more THEN j2 ELSE y,
        active |-> IF valids /\ ~more
                   THEN ballot_sync(mask, {l \in running : i2 + l < nc})
                   ELSE st.active,
        done   |-> ~(i2 < nc),
        votes  |-> IF valids
                   THEN <<Vote(mask, running)>>
                        \o (IF more THEN <<>> ELSE <<Vote(mask, running)>>)
                   ELSE <<>>]

\* the device memory a kernel of launch op works on, with the stores counted
DevMem(op) ==
    [cols   |-> tables[op.out].cols,
     counts |-> d_null_counts,
     dw     |-> data_writes[op.out],
     mw     |-> mask_writes[op.out]]

\* line 115 with the row index dropped: every row reads element 0
transposed_element_row0(in, i, j) == in[i + 1].data[1]

\* line 115: the value stored at output.column(j).element(i)
transposed_element(in, i, j) == in[i + 1].data[j + 1]

\* line 115: the lanes of the warp that are in the loop store one element each
values_store(op, st, mem) ==
    LET in == OpIn(op)
        I  == {st.i0 + l : l \in in_loop(op, st.i0)}
    IN [mem EXCEPT
          !.cols[st.j + 1].data =
              [p \in 1..Len(@) |->
                  IF (p - 1) \in I THEN transposed_element(in, p - 1, st.j) ELSE @[p]],
          !.dw[st.j + 1] =
              [p \in 1..Len(@) |-> IF (p - 1) \in I THEN @[p] + 1 ELSE @[p]]]

\* line 141 voting on nullness instead of validity
lane_predicate_is_null(in, i, j) == ~is_valid(in[i + 1], j)

\* line 141: the predicate a lane brings to the vote
lane_predicate(in, i, j) == is_valid(in[i + 1], j)

\* line 146 counting against the whole warp instead of the active lanes
num_nulls_whole_warp(active_threads, res) == WARP_SIZE - popc(res)

\* line 147 adding into the slot of the thread's own row y instead of the row j
null_count_slot_of_thread(y, j) == y
\* line 147: null_count + j, the accumulator slot of output column j
null_count_slot(y, j) == j

\* line 146: the nulls of one band of one row
num_nulls(active_threads, res) == popc(active_threads) - popc(res)

\* line 145 taking the word from the lane instead of the column
mask_word_slot_of_lane(i) == word_index(i % WARP_SIZE)
\* line 145: word_index(i), the word of the output mask that lane 0 stores
mask_word_slot(i) == word_index(i)

\* lines 141-148: the lanes in the loop vote on the validity of row j; lane 0 stores
\* the word and adds the nulls of the band to the accumulator
valids_store(op, w, st, mem) ==
    LET in  == OpIn(op)
        res == ballot_sync(loop_vote_mask(st.active),
                           {l \in in_loop(op, st.i0) : lane_predicate(in, st.i0 + l, st.j)})
        wd  == mask_word_slot(st.i0) + 1
        sl  == null_count_slot(thread_y(w[2], w[3]), st.j) + 1
    IN [mem EXCEPT !.cols[st.j + 1].mask[wd] = res,
                    !.counts[sl] = @ + num_nulls(st.active, res),
                    !.mw[st.j + 1][wd] = @ + 1]

\* the device starts the kernel at the head of the stream
KernelBegin ==
    /\ stream # <<>>
    /\ Head1.kind # "memcpy"
    /\ warps = <<>>
    /\ warps' = [w \in WarpIds(Head1) |-> WarpStart(Head1, w)]
    /\ UNCHANGED <<tables, call, pc, result, null_counts, d_null_counts, stream, nalloc, nlaunch>>
    /\ UNCHANGED <<data_writes, mask_writes, ncopies, unpack_vars, index_vars>>

\* lines 113-117: the lanes of warp w whose i is a column run one iteration of the j loop
ValuesStep(w) ==
    /\ stream # <<>>
    /\ Head1.kind = "gpu_transpose"
    /\ w \in DOMAIN warps
    /\ ~warps[w].done
    /\ LET op == Head1
           m  == values_store(op, warps[w], DevMem(op))
       IN /\ tables' = [tables EXCEPT ![op.out].cols = m.cols]
          /\ data_writes' = [data_writes EXCEPT ![op.out] = m.dw]
          /\ warps' = [warps EXCEPT ![w] = warp_next(op, w, @)]
    /\ UNCHANGED <<call, pc, result, null_counts, d_null_counts, stream, nalloc, nlaunch>>
    /\ UNCHANGED <<mask_writes, ncopies, unpack_vars, index_vars>>

\* lines 139-154: the active lanes of warp w vote on the validity of row j; lane 0
\* stores the word and adds the nulls; after the last row of a band the lanes move
\* to the next band and vote on who stays
ValidsStep(w) ==
    /\ stream # <<>>
    /\ Head1.kind = "gpu_transpose_valids"
    /\ w \in DOMAIN warps
    /\ ~warps[w].done
    /\ LET op == Head1
           m  == valids_store(op, w, warps[w], DevMem(op))
       IN /\ tables' = [tables EXCEPT ![op.out].cols = m.cols]
          /\ d_null_counts' = m.counts
          /\ mask_writes' = [mask_writes EXCEPT ![op.out] = m.mw]
          /\ warps' = [warps EXCEPT ![w] = warp_next(op, w, @)]
    /\ UNCHANGED <<call, pc, result, null_counts, stream, nalloc, nlaunch>>
    /\ UNCHANGED <<data_writes, ncopies, unpack_vars, index_vars>>

\* every thread of the kernel has returned: the stream moves on
KernelEnd ==
    /\ stream # <<>>
    /\ Head1.kind # "memcpy"
    /\ warps # <<>>
    /\ \A w \in DOMAIN warps : warps[w].done
    /\ stream' = Tail(stream)
    /\ warps' = <<>>
    /\ UNCHANGED <<tables, call, pc, result, null_counts, d_null_counts, nalloc, nlaunch>>
    /\ UNCHANGED <<data_writes, mask_writes, ncopies, unpack_vars, index_vars>>

\* the copy of lines 185-186 runs when the stream reaches it
MemcpyRun ==
    /\ stream # <<>>
    /\ Head1.kind = "memcpy"
    /\ null_counts' = d_null_counts
    /\ ncopies' = ncopies + 1
    /\ stream' = Tail(stream)
    /\ UNCHANGED <<tables, call, pc, result, d_null_counts, warps, nalloc, nlaunch>>
    /\ UNCHANGED <<data_writes, mask_writes, unpack_vars, index_vars>>

AllWarps == (0..(MAX_GRID_SIZE - 1)) \X (0..(MAX_GRID_SIZE - 1)) \X (0..(WARP_SIZE - 1))

Next ==
    \/ ReturnEmpty
    \/ FailTypeMismatch
    \/ FailNonFixedWidth
    \/ Allocate
    \/ LaunchValues
    \/ LaunchValids
    \/ SkipValids
    \/ MemcpyAsync
    \/ StreamSynchronize
    \/ Return
    \/ TransposeAgain
    \/ KernelBegin
    \/ \E w \in AllWarps : ValuesStep(w)
    \/ \E w \in AllWarps : ValidsStep(w)
    \/ KernelEnd
    \/ MemcpyRun

Spec == Init /\ [][Next]_vars

(* ------------------------ detail::mask_to_bools ------------------------ *)

\* no call of transpose is in progress
TransposeIdle ==
    /\ tables = [id \in TableIds |-> NoTable]
    /\ call = 1
    /\ pc = "idle"
    /\ result = "none"
    /\ null_counts = <<>>
    /\ d_null_counts = <<>>
    /\ stream = <<>>
    /\ warps = <<>>
    /\ nalloc = 0
    /\ nlaunch = 0
    /\ data_writes = [id \in TableIds |-> <<>>]
    /\ mask_writes = [id \in TableIds |-> <<>>]
    /\ ncopies = 0

NullMask == "nullmask is null"

\* the bitmasks a caller passes: nullptr, or an array of up to MaxMaskWords words
Bitmasks ==
    {[present |-> FALSE, words |-> <<>>]}
    \cup {[present |-> TRUE, words |-> ws] :
            ws \in UNION {[1..n -> 0..FullMask] : n \in 1..MaxMaskWords}}

\* a call mask_to_bools(bitmask, offset, length): with a bitmask, the bits
\* [offset, offset + length) lie inside it
UnpackInit ==
    /\ TransposeIdle
    /\ IndexIdle
    /\ bitmask \in Bitmasks
    /\ offset \in 0..(MaxMaskWords * BitsPerWord)
    /\ length \in 0..MaxLength
    /\ bitmask.present => offset + length <= Len(bitmask.words) * BitsPerWord
    /\ mb_pc = "start"
    /\ out_col = [alloc |-> FALSE, size |-> 0, data |-> <<>>, has_mask |-> FALSE]
    /\ mb_result = "none"
    /\ mask_reads = {}

\* make_fixed_width_column(BOOL8, size, mask_state::UNALLOCATED): new uninitialised
\* data and no mask
make_bool_column(size) ==
    [alloc |-> TRUE, size |-> size, data |-> [p \in 1..size |-> Uninit], has_mask |-> FALSE]

\* lines 34-36: length == 0 returns an empty column
MaskReturnEmpty ==
    /\ mb_pc = "start"
    /\ length = 0
    /\ out_col' = make_bool_column(0)
    /\ mb_result' = "column"
    /\ mb_pc' = "done"
    /\ UNCHANGED <<bitmask, offset, length, mask_reads, transpose_vars, index_vars>>

\* line 38 placed above line 34: nullptr is refused whatever the length
MaskFailNull_any_length ==
    /\ mb_pc = "start"
    /\ ~bitmask.present
    /\ mb_result' = NullMask
    /\ mb_pc' = "done"
    /\ UNCHANGED <<bitmask, offset, length, out_col, mask_reads, transpose_vars, index_vars>>

\* line 38 placed below lines 40-41: the column exists when nullptr is refused
MaskFailNull_after_allocation ==
    /\ mb_pc = "start"
    /\ length # 0
    /\ ~bitmask.present
    /\ out_col' = make_bool_column(length)
    /\ mb_result' = NullMask
    /\ mb_pc' = "done"
    /\ UNCHANGED <<bitmask, offset, length, mask_reads, transpose_vars, index_vars>>

\* line 38: CUDF_EXPECTS((bitmask != nullptr), "nullmask is null")
MaskFailNull ==
    /\ mb_pc = "start"
    /\ length # 0
    /\ ~bitmask.present
    /\ mb_result' = NullMask
    /\ mb_pc' = "done"
    /\ UNCHANGED <<bitmask, offset, length, out_col, mask_reads, transpose_vars, index_vars>>

\* lines 40-41: out_col of length elements, mask_state::UNALLOCATED
MaskAllocate ==
    /\ mb_pc = "start"
    /\ length # 0
    /\ bitmask.present
    /\ out_col' = make_bool_column(length)
    /\ mb_pc' = "transform"
    /\ UNCHANGED <<bitmask, offset, length, mb_result, mask_reads, transpose_vars, index_vars>>

\* line 49 without the offset
unpack_bit_no_offset(mask, off, index) == IF bit_is_set(mask, index) THEN 1 ELSE 0
\* line 49: the lambda, bit_is_set(bitmask, offset + index), stored as a BOOL8
unpack_bit(mask, off, index) == IF bit_is_set(mask, off + index) THEN 1 ELSE 0

\* lines 45-49: thrust::transform applies the lambda to the index k, in no fixed
\* order over [0, mutable_view.size())
MaskTransform(k) ==
    /\ mb_pc = "transform"
    /\ k \in 0..(out_col.size - 1)
    /\ out_col.data[k + 1] = Uninit
    /\ out_col' = [out_col EXCEPT !.data[k + 1] = unpack_bit(bitmask.words, offset, k)]
    /\ mask_reads' = mask_reads \cup {offset + k}
    /\ UNCHANGED <<mb_pc, bitmask, offset, length, mb_result, transpose_vars, index_vars>>

\* line 52: return std::move(out_col), once thrust::transform has returned
MaskReturn ==
    /\ mb_pc = "transform"
    /\ \A k \in 1..out_col.size : out_col.data[k] # Uninit
    /\ mb_result' = "column"
    /\ mb_pc' = "done"
    /\ UNCHANGED <<bitmask, offset, length, out_col, mask_reads, transpose_vars, index_vars>>

UnpackNext ==
    \/ MaskReturnEmpty
    \/ MaskFailNull
    \/ MaskAllocate
    \/ \E k \in 0..(MaxLength - 1) : MaskTransform(k)
    \/ MaskReturn

SpecUnpack == UnpackInit /\ [][UnpackNext]_vars

(* ------------------- one thread in one strided loop -------------------- *)
(* The index arithmetic of the kernels, at the sizes of the source: a      *)
(* thread computes x (or y) and stride_x (or stride_y) as size_type, a     *)
(* signed 32-bit integer, and runs for (i = x; i < n; i += stride).        *)

\* constexpr int WARP_SIZE = 32 (line 93)
WarpSize == 32
\* constexpr int MAX_GRID_SIZE = (1<<16)-1 (line 94)
MaxGridSize == 65535
\* std::numeric_limits<size_type>::max() and ::min(), size_type = int32_t
INT_MAX == 2147483647
INT_MIN == -INT_MAX - 1

\* values of input.num_columns() / input.num_rows(): small ones, the first that
\* reaches the grid cap, and the largest ones a size_type holds
Dimensions == {1, WarpSize + 1, WarpSize * MaxGridSize, WarpSize * MaxGridSize + 1,
               INT_MAX - WarpSize * MaxGridSize + 1, INT_MAX}

\* lines 174-175: dimGrid along one axis
index_grid(n) == Min(div_rounding_up_safe(n, WarpSize), MaxGridSize)

\* a thread of the first or the last block of the launch for a table of dimension
\* ix_n along the axis, first or last thread of its block
IndexInit ==
    /\ TransposeIdle
    /\ UnpackIdle
    /\ ix_pc = "entry"
    /\ ix_axis \in {"x", "y"}
    /\ ix_n \in Dimensions
    /\ ix_grid = index_grid(ix_n)
    /\ ix_block \in {0, ix_grid - 1}
    /\ ix_thread \in {0, WarpSize - 1}
    /\ ix_start = 0
    /\ ix_stride = 0
    /\ ix_i = 0

\* lines 107-113 (131-136): x = blockIdx.x * blockDim.x + threadIdx.x,
\* stride_x = blockDim.x * gridDim.x, i = x; the same for y, stride_y, j
IndexEntry ==
    /\ ix_pc = "entry"
    /\ ix_start' = ix_block * WarpSize + ix_thread
    /\ ix_stride' = WarpSize * ix_grid
    /\ ix_i' = ix_block * WarpSize + ix_thread
    /\ ix_pc' = "loop"
    /\ UNCHANGED <<ix_axis, ix_n, ix_block, ix_thread, ix_grid, transpose_vars, unpack_vars>>

\* lines 113-114 (139-140, 152): the bound check holds, the body runs and
\* i += stride_x (j += stride_y) stays inside size_type
IndexStep ==
    /\ ix_pc = "loop"
    /\ ix_i < ix_n
    /\ ix_i <= INT_MAX - ix_stride
    /\ ix_i' = ix_i + ix_stride
    /\ UNCHANGED <<ix_pc, ix_axis, ix_n, ix_block, ix_thread, ix_grid, ix_start, ix_stride,
                   transpose_vars, unpack_vars>>

\* the same statement when i + stride does not fit: signed overflow, undefined
\* behaviour; the build may wrap around, or keep any value it finds convenient
IndexStepOverflow ==
    /\ ix_pc = "loop"
    /\ ix_i < ix_n
    /\ ix_i > INT_MAX - ix_stride
    /\ ix_i' \in {INT_MIN + (ix_i - (INT_MAX - ix_stride) - 1), ix_i, INT_MAX}
    /\ ix_pc' = "undefined"
    /\ UNCHANGED <<ix_axis, ix_n, ix_block, ix_thread, ix_grid, ix_start, ix_stride,
                   transpose_vars, unpack_vars>>

\* lines 113-114 (139): the bound check fails and the loop is left
IndexExit ==
    /\ ix_pc = "loop"
    /\ ~(ix_i < ix_n)
    /\ ix_pc' = "done"
    /\ UNCHANGED <<ix_axis, ix_n, ix_block, ix_thread, ix_grid, ix_start, ix_stride, ix_i,
                   transpose_vars, unpack_vars>>

IndexNext ==
    \/ IndexEntry
    \/ IndexStep
    \/ IndexStepOverflow
    \/ IndexExit

SpecIndex == IndexInit /\ [][IndexNext]_vars

(* ------------------------------ properties ----------------------------- *)

\* the current call has handed a table to its caller
Returned == pc = "done" /\ result = "table"
\* work of the current call is still on the stream
WorkPending == \E k \in 1..Len(stream) : stream[k].out = OutId
\* the current call has returned and the work it enqueued has run
Completed == Returned /\ ~WorkPending

\* a table with no column or no row
EmptyTable(t) == num_columns(t) = 0 \/ num_rows(t) = 0
\* a table two of whose columns differ in type
MixedTypes(t) == \E a \in 1..Len(t) : \E b \in 1..Len(t) : t[a].dtype # t[b].dtype
\* a table whose columns have one type and that type is fixed-width
ValidTypes(t) == ~MixedTypes(t) /\ \A c \in 1..Len(t) : is_fixed_width(t[c].dtype)
Errors == {TypeMismatch, UnsupportedType}

Cols(t) == 0..(num_columns(t) - 1)
Rows(t) == 0..(num_rows(t) - 1)
\* the null elements of a table, as (column, row) pairs
NullCells(t) == {c \in Cols(t) \X Rows(t) : ~is_valid(t[c[1] + 1], c[2])}
\* the null counts recorded on the columns of a table
RecordedNullCounts(t) == [c \in 1..Len(t) |-> t[c].null_count]

\* C1: once transpose of a non-empty table has completed, the output has nrows columns
\* of ncols elements each and element i of output column j is element j of input
\* column i; the shape is that already when the call returns.
C1_ElementCorrespondence ==
    (Returned /\ ~EmptyTable(input)) =>
        /\ num_columns(output) = input_nrows
        /\ \A j \in Rows(input) :
              /\ output[j + 1].size = input_ncols
              /\ Len(output[j + 1].data) = input_ncols
        /\ ~WorkPending =>
              \A i \in Cols(input) : \A j \in Rows(input) :
                  output[j + 1].data[i + 1] = input[i + 1].data[j + 1]

\* a completed transpose of a table wider than one capped grid pass
C1_Witness == Completed /\ call = 1 /\ input_ncols = MaxCols /\ input_nrows = 1

\* C2: after transpose of a table with nulls, bit i of output column j's mask is set
\* exactly when element j of input column i is valid; a column without a mask is
\* all valid.
C2_ValidityCorrespondence ==
    (Returned /\ has_nulls(input)) =>
        \A i \in Cols(input) : \A j \in Rows(input) :
            /\ output[j + 1].has_mask
            /\ bit_is_set(output[j + 1].mask, i) <=> is_valid(input[i + 1], j)

\* a returned transpose of a table with nulls, more than one band of columns, and a
\* column that carries no mask
C2_Witness ==
    /\ Returned
    /\ has_nulls(input)
    /\ input_ncols > WARP_SIZE
    /\ \E c \in 1..Len(input) : ~input[c].has_mask

\* C3: after transpose of a table with nulls, the null counts recorded on the output
\* columns add up to the number of null elements of the input.
C3_NullConservation ==
    (Returned /\ has_nulls(input)) =>
        SumSeq(RecordedNullCounts(output)) = Cardinality(NullCells(input))

\* a returned transpose of a table with several nulls whose last band is not full
C3_Witness ==
    /\ Returned
    /\ Cardinality(NullCells(input)) >= 2
    /\ input_ncols % WARP_SIZE # 0
    /\ input_ncols > WARP_SIZE

\* C4: without nulls in the input no output column has a mask and every output null
\* count is 0; with nulls in the input every output column has a mask, also those
\* whose own null count is 0.
C4_MaskPolicyUniform ==
    (Returned /\ ~EmptyTable(input)) =>
        /\ ~has_nulls(input) =>
              \A c \in 1..Len(output) : ~output[c].has_mask /\ null_count(output[c]) = 0
        /\ has_nulls(input) => \A c \in 1..Len(output) : output[c].has_mask

\* a returned transpose with nulls one of whose output columns has no null of its own
C4_Witness ==
    /\ Returned
    /\ has_nulls(input)
    /\ \E c \in 1..Len(output) : output[c].has_mask /\ output[c].null_count = 0

\* shape and element values of two tables agree
SameShapeAndValues(t, u) ==
    /\ num_columns(t) = num_columns(u)
    /\ num_rows(t) = num_rows(u)
    /\ \A c \in 1..Len(t) : t[c].size = u[c].size /\ t[c].data = u[c].data

\* the table the first call read and the table the second call built from its output
FirstInput == tables[1].cols
RoundTrip == call = 2 /\ Completed /\ ValidTypes(FirstInput)

\* C5 as stated: transpose(transpose(T)) has the shape and the element values of T,
\* for every T whose columns have one fixed-width type.
C5_RoundTripAnyTable == RoundTrip => SameShapeAndValues(FirstInput, output)

\* C5 amended: transpose(transpose(T)) has the shape and the element values of T when
\* T has at least one row or no column; for a T with columns and no rows it is the
\* table with no columns and no rows.
C5_RoundTrip ==
    RoundTrip =>
        IF num_columns(FirstInput) > 0 /\ num_rows(FirstInput) = 0
        THEN num_columns(output) = 0 /\ num_rows(output) = 0
        ELSE SameShapeAndValues(FirstInput, output)

\* a completed round trip of a table of several blocks in both directions
C5_Witness == RoundTrip /\ num_columns(FirstInput) = 3 /\ num_rows(FirstInput) = 2

\* C6: transpose of a table with no column or no row raises no error, returns the
\* table with no columns and no rows, allocates no output column and launches no
\* kernel.
C6_EmptyInput ==
    (pc = "done" /\ EmptyTable(input)) =>
        /\ result = "table"
        /\ tables[OutId].alloc
        /\ num_columns(output) = 0
        /\ num_rows(output) = 0
        /\ nalloc = 0
        /\ nlaunch = 0
        /\ ~WorkPending

\* a finished transpose of a table with columns and no rows
C6_Witness == pc = "done" /\ call = 1 /\ input_ncols = 2 /\ input_nrows = 0

\* C7 as stated: transpose of a table with columns of different types fails with
\* TypeMismatch, and of a table of one variable-width type with UnsupportedType.
C7_TypeErrorsAnyTable ==
    pc = "done" =>
        /\ MixedTypes(input) => result = TypeMismatch
        /\ (num_columns(input) > 0 /\ ~MixedTypes(input) /\ ~is_fixed_width(input[1].dtype))
              => result = UnsupportedType

\* C7 amended: transpose of a table with at least one row fails with TypeMismatch
\* when its columns differ in type, and with UnsupportedType when they have one
\* variable-width type.
C7_TypeErrors ==
    (pc = "done" /\ ~EmptyTable(input)) =>
        /\ MixedTypes(input) => result = TypeMismatch
        /\ (~MixedTypes(input) /\ ~is_fixed_width(input[1].dtype)) => result = UnsupportedType

\* a failed transpose of columns of different types whose first is variable-width
C7_Witness ==
    /\ pc = "done"
    /\ result = TypeMismatch
    /\ input_ncols >= 3
    /\ input_nrows >= 1
    /\ ~is_fixed_width(input[1].dtype)

\* a column as allocate_like and the kernels leave it: its data and its mask have the
\* lengths its size asks for
WellFormedColumn(col, dtype, size) ==
    /\ col.dtype = dtype
    /\ col.size = size
    /\ Len(col.data) = size
    /\ Len(col.mask) = (IF col.has_mask THEN num_bitmask_words(size) ELSE 0)
\* nothing of the column is uninitialised device memory
WrittenColumn(col) ==
    /\ \A p \in 1..Len(col.data) : col.data[p] # Uninit
    /\ \A w \in 1..Len(col.mask) : col.mask[w] # Uninit

\* C8: a failed type check leaves no output column allocated, no kernel launched and
\* no table with the caller; a call ends either in such a failure or with a table of
\* the transposed shape and the input's type, all of it written once the work the
\* call enqueued has run.
C8_FailBeforeAllocation ==
    pc = "done" =>
        \/ /\ result \in Errors
           /\ ~EmptyTable(input) /\ ~ValidTypes(input)
           /\ nalloc = 0
           /\ nlaunch = 0
           /\ ~tables[OutId].alloc
           /\ ~WorkPending
        \/ /\ result = "table"
           /\ EmptyTable(input) \/ ValidTypes(input)
           /\ tables[OutId].alloc
           /\ num_columns(output) = (IF EmptyTable(input) THEN 0 ELSE input_nrows)
           /\ \A c \in 1..Len(output) :
                 /\ WellFormedColumn(output[c], input[1].dtype, input_ncols)
                 /\ ~WorkPending => WrittenColumn(output[c])

\* a failed transpose of a table of one variable-width type
C8_Witness ==
    /\ pc = "done"
    /\ result = UnsupportedType
    /\ input_ncols >= 2
    /\ input_nrows >= 2

\* C9 as stated: when transpose of a non-empty table returns, the work it launched
\* has completed, with or without nulls.
C9_ReturnAfterAllWork == (Returned /\ ~EmptyTable(input)) => ~WorkPending

\* C9 amended: when transpose of a table with nulls returns, the value kernel, the
\* validity kernel and the null-count copy have completed; without nulls it returns
\* after launching the value kernel, without waiting for it.
C9_ReturnAfterWorkWithNulls ==
    (pc \in {"finish", "done"} /\ ~EmptyTable(input) /\ ValidTypes(input)) =>
        IF has_nulls(input)
        THEN nlaunch = 2 /\ stream = <<>> /\ warps = <<>>
        ELSE nlaunch = 1

\* a returned transpose of a table with nulls, both kernels launched
C9_Witness == Returned /\ has_nulls(input) /\ nlaunch = 2 /\ input_ncols > WARP_SIZE

\* valid bits of output column c among its first n bits
UnsetBits(col, n) == Cardinality({b \in 0..(n - 1) : ~bit_is_set(col.mask, b)})

\* C10: after transpose of a table with nulls, the null count recorded on output
\* column j is the number of input columns whose row j is null, is the number of
\* unset bits among the first ncols bits of the column's mask, and is at most ncols.
C10_NullCountPerColumn ==
    (Returned /\ has_nulls(input)) =>
        \A j \in Rows(input) :
            /\ output[j + 1].null_count
                  = Cardinality({i \in Cols(input) : ~is_valid(input[i + 1], j)})
            /\ output[j + 1].null_count = UnsetBits(output[j + 1], input_ncols)
            /\ output[j + 1].null_count >= 0
            /\ output[j + 1].null_count <= input_ncols

\* a returned transpose with nulls whose last band of columns is not full and one of
\* whose output columns is all null
C10_Witness ==
    /\ Returned
    /\ has_nulls(input)
    /\ input_ncols = WARP_SIZE + 1
    /\ \E c \in 1..Len(output) : output[c].null_count = input_ncols

(* ---------------------------- mask_to_bools ---------------------------- *)

\* mask_to_bools has handed a column to its caller
UnpackReturned == mb_pc = "done" /\ mb_result = "column"
\* bit b of a bitmask, counted from the least significant bit of word 0
MaskBit(words, b) == (words[(b \div BitsPerWord) + 1] \div Pow2(b % BitsPerWord)) % 2 = 1

\* C11: with length > 0 and a bitmask, mask_to_bools returns a column of exactly
\* length elements and no mask whose element k is true exactly when bit offset + k
\* of the bitmask is set; a bitmask with every bit set gives length true values
C11_UnpackedBits ==
    (UnpackReturned /\ length > 0 /\ bitmask.present) =>
        /\ out_col.alloc
        /\ out_col.size = length
        /\ Len(out_col.data) = length
        /\ ~out_col.has_mask
        /\ \A k \in 0..(length - 1) :
              out_col.data[k + 1] = (IF MaskBit(bitmask.words, offset + k) THEN 1 ELSE 0)
        /\ (\A n \in 1..Len(bitmask.words) : bitmask.words[n] = FullMask) =>
              \A k \in 1..length : out_col.data[k] = 1
C11_Witness ==
    /\ UnpackReturned
    /\ length = MaxLength
    /\ offset = 1
    /\ bitmask.present
    /\ out_col.data[1] = 0
    /\ out_col.data[2] = 1
    /\ MaskBit(bitmask.words, 0)

\* C12: with length == 0 mask_to_bools returns an empty column and reads no bit of
\* the bitmask, also when the bitmask is nullptr; and a call with nullptr returns a
\* column only when length == 0
C12_EmptyLength ==
    /\ (mb_pc = "done" /\ length = 0) =>
          /\ mb_result = "column"
          /\ out_col.alloc
          /\ out_col.size = 0
          /\ out_col.data = <<>>
          /\ mask_reads = {}
    /\ (UnpackReturned /\ ~bitmask.present) => length = 0
C12_Witness ==
    /\ UnpackReturned
    /\ length = 0
    /\ ~bitmask.present
    /\ out_col.alloc

\* C13: with length > 0 and nullptr mask_to_bools fails with "nullmask is null", and
\* at the failure no output column has been allocated and no bit has been read
C13_NullMaskRefused ==
    /\ (mb_pc = "done" /\ length > 0 /\ ~bitmask.present) =>
          /\ mb_result = NullMask
          /\ ~out_col.alloc
          /\ mask_reads = {}
    /\ (length > 0 /\ ~bitmask.present) => (~out_col.alloc /\ mask_reads = {})
C13_Witness ==
    /\ mb_pc = "done"
    /\ mb_result = NullMask
    /\ length > 0
    /\ ~bitmask.present

(* ------------------- the kernels under a fixed schedule ---------------- *)

\* the kernel of launch op run to its end on memory mem by one warp after the other,
\* each warp running all its steps before the next one starts
kernel_store(op, w, st, mem) ==
    IF op.kind = "gpu_transpose" THEN values_store(op, st, mem) ELSE valids_store(op, w, st, mem)
RECURSIVE RunWarp(_, _, _, _)
RunWarp(op, w, st, mem) ==
    IF st.done THEN mem
    ELSE RunWarp(op, w, warp_next(op, w, st), kernel_store(op, w, st, mem))
\* the n-th warp of the grid of op, blocks in row-major order
NthWarp(op, n) == <<n \div (op.gy * WARP_SIZE), (n \div WARP_SIZE) % op.gy, n % WARP_SIZE>>
RECURSIVE RunKernel(_, _, _)
RunKernel(op, n, mem) ==
    IF n = op.gx * op.gy * WARP_SIZE THEN mem
    ELSE RunKernel(op, n + 1, RunWarp(op, NthWarp(op, n), WarpStart(op, NthWarp(op, n)), mem))

\* the output of the current call had its kernels run under that schedule on a grid
\* of gx by gy blocks: values, mask words and null counts
SequentialTranspose(gx, gy) ==
    LET has_null == has_nulls(input)
        fresh == allocated_output(input)
        op(kernel) == [kind |-> kernel, in |-> InId, out |-> OutId, gx |-> gx, gy |-> gy]
        m0 == [cols   |-> fresh,
               counts |-> [c \in 1..Len(fresh) |-> 0],
               dw     |-> no_data_writes(fresh),
               mw     |-> no_mask_writes(fresh)]
        m1 == RunKernel(op("gpu_transpose"), 0, m0)
        m2 == IF has_null THEN RunKernel(op("gpu_transpose_valids"), 0, m1) ELSE m1
    IN [c \in 1..Len(fresh) |->
           IF has_null THEN [m2.cols[c] EXCEPT !.null_count = m2.counts[c]] ELSE m2.cols[c]]

\* blocks needed to give every column (row) a thread of its own
UncappedGrid(n) == (n + WARP_SIZE - 1) \div WARP_SIZE
\* the current call ran its kernels on a grid smaller than that
GridCapped == UncappedGrid(num_columns(input)) > MAX_GRID_SIZE \/ UncappedGrid(num_rows(input)) > MAX_GRID_SIZE

\* C14: the output of a call whose grid was capped at MAX_GRID_SIZE (values, mask
\* words and null counts) is the output of the uncapped grid of ceil(ncols/WARP_SIZE)
\* by ceil(nrows/WARP_SIZE) blocks, and the strided loops have reached every (i, j)
\* and, with nulls, every mask word of every output column
C14_GridCapIndependence ==
    (Completed /\ ~EmptyTable(input) /\ ValidTypes(input)) =>
        /\ output = SequentialTranspose(UncappedGrid(num_columns(input)), UncappedGrid(num_rows(input)))
        /\ \A j \in 1..num_rows(input) : \A i \in 1..num_columns(input) : data_writes[OutId][j][i] >= 1
        /\ has_nulls(input) =>
              \A j \in 1..num_rows(input) :
                 \A w \in 1..UncappedGrid(num_columns(input)) : mask_writes[OutId][j][w] >= 1
C14_Witness ==
    /\ Completed
    /\ ValidTypes(input)
    /\ GridCapped
    /\ has_nulls(input)
    /\ num_columns(input) = MaxCols
    /\ output = SequentialTranspose(UncappedGrid(num_columns(input)), UncappedGrid(num_rows(input)))

(* ------------------------------ the stores ----------------------------- *)

\* the tables some call has allocated as its output
Outputs == {id \in TableIds : data_writes[id] # <<>>}
\* stores into element p of column c of table id, and into word w of its mask
ElementStores(id, c, p) == data_writes[id][c][p]
WordStores(id, c, w) == mask_writes[id][c][w]

\* C15: on any grid no output element and no output mask word is ever stored twice,
\* and when a call has completed every element, and with nulls every mask word
\* w < ceil(ncols/WARP_SIZE) of every output column, has been stored exactly once
C15_SingleWriter ==
    /\ \A id \in Outputs : \A c \in 1..Len(data_writes[id]) :
          /\ \A p \in 1..Len(data_writes[id][c]) : ElementStores(id, c, p) <= 1
          /\ \A w \in 1..Len(mask_writes[id][c]) : WordStores(id, c, w) <= 1
    /\ (Completed /\ ~EmptyTable(input) /\ ValidTypes(input)) =>
          \A c \in 1..num_rows(input) :
             /\ \A p \in 1..num_columns(input) : ElementStores(OutId, c, p) = 1
             /\ has_nulls(input) =>
                   /\ Len(mask_writes[OutId][c]) = UncappedGrid(num_columns(input))
                   /\ \A w \in 1..UncappedGrid(num_columns(input)) : WordStores(OutId, c, w) = 1
C15_Witness ==
    /\ Completed
    /\ ValidTypes(input)
    /\ has_nulls(input)
    /\ num_rows(input) = MaxRows
    /\ \A c \in 1..num_rows(input) : ElementStores(OutId, c, 1) = 1 /\ WordStores(OutId, c, 1) = 1

(* --------------------------- the accumulator --------------------------- *)

\* a gpu_transpose_valids launch is on the stream; its threads are executing
ValidsQueued == \E k \in 1..Len(stream) : stream[k].kind = "gpu_transpose_valids"
ValidsRunning == stream # <<>> /\ stream[1].kind = "gpu_transpose_valids" /\ warps # <<>>

\* one slot per output column; all slots zero until the kernel starts; at most one
\* copy, none while the kernel is on the stream, one when launch_kernel is over for
\* a table with nulls; a null count on an output column is the copied one
AccumulatorState ==
    /\ d_null_counts # <<>> => Len(d_null_counts) = Len(output)
    /\ (ValidsQueued /\ ~ValidsRunning) => \A c \in 1..Len(d_null_counts) : d_null_counts[c] = 0
    /\ ncopies <= 1
    /\ ncopies = 1 => ~ValidsQueued
    /\ (pc \in {"finish", "done"} /\ ~EmptyTable(input) /\ ValidTypes(input) /\ has_nulls(input))
          => ncopies = 1
    /\ \A c \in 1..Len(output) :
          output[c].null_count # UNKNOWN_NULL_COUNT =>
              ncopies = 1 /\ output[c].null_count = null_counts[c]

\* the accumulator changes when it is created, when it is destroyed after the copy,
\* and otherwise by an add of the running kernel into one slot; the copy is taken
\* with the kernel off the stream and hands the host the accumulator as it is
AccumulatorStep ==
    /\ d_null_counts' # d_null_counts =>
          \/ d_null_counts = <<>> /\ pc = "launched"
          \/ d_null_counts' = <<>> /\ pc = "sync" /\ ncopies = 1
          \/ /\ ValidsRunning
             /\ Len(d_null_counts') = Len(d_null_counts)
             /\ \E c \in 1..Len(d_null_counts) :
                   /\ d_null_counts'[c] > d_null_counts[c]
                   /\ \A e \in 1..Len(d_null_counts) : e # c => d_null_counts'[e] = d_null_counts[e]
    /\ ncopies' = ncopies + 1 =>
          /\ ~ValidsQueued
          /\ warps = <<>>
          /\ null_counts' = d_null_counts

\* C16: the null-count accumulator has one slot per output column, all zero before
\* gpu_transpose_valids starts; only atomic adds of that kernel change it; it is
\* copied to the host once, after the kernel has left the stream; null counts are
\* set on output columns only after that copy
C16_Accumulator == [](AccumulatorState) /\ [][AccumulatorStep]_vars
C16_Witness ==
    /\ Returned
    /\ has_nulls(input)
    /\ ncopies = 1
    /\ \E c \in 1..Len(output) : output[c].null_count > 0
    /\ \E c \in 1..Len(output) : output[c].null_count = 0

(* ---------------------------- word alignment --------------------------- *)

\* bit p of a mask word
BitOf(word, p) == (word \div Pow2(p)) % 2 = 1

\* a step that stores word w of the mask of column c of table id is the step of a
\* warp whose lane 0 has i = (w - 1) * BitsPerWord and j = c - 1, and the word holds
\* in bit p the validity of input column i + p at row j, 0 past the last column
WordStoreAligned(id, c, w) ==
    \E wp \in DOMAIN warps :
       /\ warps'[wp] # warps[wp]
       /\ warps[wp].i0 % BitsPerWord = 0
       /\ w - 1 = warps[wp].i0 \div BitsPerWord
       /\ c - 1 = warps[wp].j
       /\ \A p \in 0..(BitsPerWord - 1) :
             BitOf(tables'[id].cols[c].mask[w], p) <=>
                 /\ warps[wp].i0 + p < num_columns(tables[id - 1].cols)
                 /\ is_valid(tables[id - 1].cols[warps[wp].i0 + p + 1], c - 1)

\* C17: whenever lane 0 of a warp stores a mask word into output column j, its i is
\* a multiple of the word width, the word goes to index i / width, and bit p is the
\* validity of input column i + p at row j (0 when i + p >= ncols), in every band
C17_WordAlignment ==
    [][\A id \in Outputs : \A c \in 1..Len(mask_writes[id]) :
          \A w \in 1..Len(mask_writes[id][c]) :
             (mask_writes'[id][c][w] # mask_writes[id][c][w]
                \/ tables'[id].cols[c].mask[w] # tables[id].cols[c].mask[w])
             => WordStoreAligned(id, c, w)]_vars
C17_Witness ==
    /\ ValidsRunning
    /\ num_columns(tables[stream[1].in].cols) = 3
    /\ \E c \in 1..Len(mask_writes[stream[1].out]) :
          /\ mask_writes[stream[1].out][c][2] = 1
          /\ tables[stream[1].out].cols[c].mask[2] = 1

(* ------------------------------ the votes ------------------------------ *)

\* the device runs the work on its stream: a kernel that can start starts, a warp
\* that has an iteration to run runs it, finished work leaves the stream
DeviceNext ==
    \/ KernelBegin
    \/ \E w \in AllWarps : ValuesStep(w)
    \/ \E w \in AllWarps : ValidsStep(w)
    \/ KernelEnd
    \/ MemcpyRun

FairSpec == Spec /\ WF_vars(DeviceNext)

\* the votes a warp of the running gpu_transpose_valids executed in its latest step
\* were each executed by exactly the lanes their mask names
VotesMatch ==
    ValidsRunning =>
        \A w \in DOMAIN warps : \A k \in 1..Len(warps[w].votes) :
            LanesOf(warps[w].votes[k].mask) = warps[w].votes[k].voters

\* the first vote of a warp is executed by all lanes under the full mask; the votes
\* a warp without a row goes on to execute, band after band, and the votes of a step
\* of a warp with a row, by the lanes whose column index in that iteration is a column
VoteStep ==
    /\ (warps = <<>> /\ warps' # <<>> /\ stream[1].kind = "gpu_transpose_valids") =>
          \A w \in DOMAIN warps' :
              /\ Len(warps'[w].votes) >= 1
              /\ warps'[w].votes[1].mask = Pow2(WARP_SIZE) - 1
              /\ warps'[w].votes[1].voters = 0..(WARP_SIZE - 1)
              /\ \A k \in 2..Len(warps'[w].votes) :
                    warps'[w].votes[k].voters =
                        {l \in 0..(WARP_SIZE - 1) :
                            (w[1] + (k - 2) * stream[1].gx) * WARP_SIZE + l
                                < num_columns(tables[stream[1].in].cols)}
    /\ (ValidsRunning /\ warps' # <<>>) =>
          \A w \in DOMAIN warps :
              warps'[w] # warps[w] =>
                  /\ Len(warps'[w].votes) >= 1
                  /\ \A k \in 1..Len(warps'[w].votes) :
                        warps'[w].votes[k].voters =
                            {l \in 0..(WARP_SIZE - 1) :
                                warps[w].i0 + l < num_columns(tables[stream[1].in].cols)}

\* C18: in gpu_transpose_valids every vote is executed by exactly the lanes its mask
\* names (all lanes for the first vote, afterwards the lanes whose column index is
\* below ncols), and the warps of every launch all terminate
C18_VotesAndTermination ==
    /\ [](VotesMatch)
    /\ [][VoteStep]_vars
    /\ (ValidsRunning ~> ~ValidsRunning)
C18_Witness ==
    /\ ValidsRunning
    /\ num_columns(tables[stream[1].in].cols) = 3
    /\ \E w \in DOMAIN warps :
          /\ Len(warps[w].votes) = 2
          /\ warps[w].votes[1].voters = {0}
          /\ warps[w].active = 0
          /\ warps[w].done

(* ----------------------------- determinism ----------------------------- *)

\* the grid the current call launched its kernels on
LaunchedGrid(n) == IF UncappedGrid(n) < MAX_GRID_SIZE THEN UncappedGrid(n) ELSE MAX_GRID_SIZE

\* C19: for the same input the completed output (element values, mask words and
\* null counts) is the same under every interleaving of the warps and atomic adds
\* of the two kernels: it is the output of the one schedule that runs the warps of
\* the launched grid one after the other
C19_ScheduleIndependence ==
    (Completed /\ ~EmptyTable(input) /\ ValidTypes(input)) =>
        output = SequentialTranspose(LaunchedGrid(num_columns(input)),
                                     LaunchedGrid(num_rows(input)))
C19_Witness ==
    /\ Completed
    /\ ValidTypes(input)
    /\ has_nulls(input)
    /\ num_columns(input) = 3
    /\ num_rows(input) = 2
    /\ \E c \in 1..Len(output) : output[c].null_count = 2
    /\ output = SequentialTranspose(LaunchedGrid(num_columns(input)),
                                    LaunchedGrid(num_rows(input)))

(* --------------------------- index arithmetic -------------------------- *)

\* C20: for every dimension a size_type holds, x, y, stride_x, stride_y and every
\* i += stride_x, j += stride_y of a kernel thread stay inside the size_type range:
\* no signed overflow happens before the bound check stops the loop
C20_IndicesInRange ==
    /\ ix_pc # "undefined"
    /\ ix_start >= 0 /\ ix_start <= INT_MAX
    /\ ix_stride >= 0 /\ ix_stride <= INT_MAX
    /\ ix_i >= 0 /\ ix_i <= INT_MAX

====
